---- MODULE Spec2Model ----
(***************************************************************************)
(* InputManager of sofie-input-gateway (packages/input-manager): the       *)
(* registry of devices, their creation, error teardown, the periodic       *)
(* reconciliation, the Manager's destroy(), trigger forwarding and         *)
(* feedback routing.                                                       *)
(*                                                                         *)
(* JavaScript runs one synchronous segment at a time, so every action is   *)
(* one such segment: the code from a call, an event or a promise settling  *)
(* up to the next await.  A Device is an external integration: when its    *)
(* init() and destroy() promises settle, how they settle, and when it      *)
(* emits `trigger` and `error` are chosen nondeterministically; the        *)
(* Manager hears an event whenever its listener is attached, which it is   *)
(* from before device.init() is called until Device.destroy() is called.   *)
(* Each destroy() call on a device returns a promise of its own.           *)
(*                                                                         *)
(* The callers: init() is called once; refreshDevices() is called by the   *)
(* interval only; a destroy() call is made once the previous one settled,  *)
(* and so is a clearFeedbackAll() call.  A device's clearFeedbackAll() may *)
(* resolve or reject whatever the device's state.                          *)
(* The integrations' constructors do not throw.                            *)
(***************************************************************************)
EXTENDS Naturals, Sequences, FiniteSets

VARIABLES
    devices,      \* #devices: device-id -> instance number, 0 for no entry
    insts,        \* every Device instance created so far, in creation order
    initPc,       \* where Manager init() stands
    timerActive,  \* the setInterval of init() is set and not cleared
    cycles,       \* refreshDevices() cycles that started a creation
    subscribed,   \* the Manager's own listeners are attached
    dCalls,       \* Manager destroy() calls made so far
    dState,       \* per Manager destroy() call: its promise (st), the device
                  \* destroy() promises it awaits (wait), whether init() had
                  \* resolved when it was called (afterInit), whether init()
                  \* was in flight when it was called (duringInit)
    out,          \* what the last segment handed to callers and subscribers
    cf            \* the Manager clearFeedbackAll() invocation: its promise (st),
                  \* the devices it iterates (snapshot), how many of them it
                  \* has called (pos), the device calls not yet settled (inflight)

vars == <<devices, insts, initPc, timerActive, cycles, subscribed, dCalls, dState, out, cf>>

\* config.devices: the configured device-ids, in Object.entries order.
ConfigSeq == <<"a", "b">>

Config == {ConfigSeq[n] : n \in 1..Len(ConfigSeq)}

\* Device instances created at most where the Manager is never destroyed
\* (SpecDevices).
MaxInst == 4

\* Device instances created and Manager destroy() calls made at most where
\* the Manager is destroyed too (Spec).
MaxInstDestroy == 3

MaxDestroyCalls == 2

\* Device instances created at most under fairness (FairDevices).
MaxInstFair == 3

\* Device instances created at most where triggers and feedback calls are
\* explored (SpecIO).
MaxInstIO == 3

\* Device instances created at most where the feedback calls are explored
\* (SpecFeedback).
MaxInstFeedback == 3

\* Payloads a device emits with `trigger`.
EventArgs == {[triggerId |-> "t1"], [triggerId |-> "t2", replacesPrevious |-> TRUE]}

\* Property names every object literal inherits from Object.prototype.
ObjectPrototypeKeys == {"constructor"}

\* The deviceId arguments setFeedback is called with.
FeedbackIds == Config \cup {"missing"} \cup ObjectPrototypeKeys

NoDevice == 0

NoOut == [kind |-> "none"]

\* No clearFeedbackAll() invocation made.
NoClear == [st |-> "none", snapshot |-> <<>>, pos |-> 0, inflight |-> {}]

----------------------------------------------------------------------------
(* Promise combinators, over the set of states of the promises combined.   *)

\* Promise.all: rejects with the first rejection, resolves once all resolved.
PromiseAll(states) ==
    IF "rejected" \in states THEN "rejected"
    ELSE IF states \subseteq {"resolved"} THEN "resolved"
    ELSE "pending"

\* Promise.allSettled: resolves once every promise settled, never rejects.
PromiseAllSettled(states) ==
    IF states \subseteq {"resolved", "rejected"} THEN "resolved" ELSE "pending"

----------------------------------------------------------------------------
(* Device instances.                                                       *)

\* createNewDevice and the wiring of createDevice up to `await device.init()`:
\* a fresh instance with the trigger and error listeners attached.
NewDevice(deviceId, owner) ==
    [id        |-> deviceId,
     owner     |-> owner,       \* 0: init(); c > 0: refresh cycle c
     init      |-> "pending",   \* device.init(): pending, resolved, rejected
     cd        |-> "awaitInit", \* createDevice: awaitInit, awaitDestroy, resolved, rejected
     listening |-> TRUE,        \* the Manager's listeners are attached
     err       |-> "none"]      \* error handler's destroy(): none, pending, done

\* Device.destroy(): removeAllListeners().
DeviceDestroy(device) == [device EXCEPT !.listening = FALSE]

Insts == 1..Len(insts)

\* The state of a createDevice promise, as the combinators see it.
CdPromise(device) ==
    IF device.cd \in {"resolved", "rejected"} THEN device.cd ELSE "pending"

OwnedBy(seq, owner) == {i \in 1..Len(seq) : seq[i].owner = owner}

\* `this.#devices[deviceId]`: an own property, else one inherited from
\* Object.prototype (#devices is an object literal), else undefined.
Lookup(deviceId) ==
    IF deviceId \in Config /\ devices[deviceId] # NoDevice
    THEN [kind |-> "device", inst |-> devices[deviceId]]
    ELSE IF deviceId \in ObjectPrototypeKeys
    THEN [kind |-> "inherited"]
    ELSE [kind |-> "undefined"]

\* `this.#devices[deviceId] !== undefined` of refreshDevices, negated.
IsAbsent(deviceId) == Lookup(deviceId).kind = "undefined"

\* A refreshDevices that stops at the first absent id.
ToCreateFirstOnly ==
    LET absent == SelectSeq(ConfigSeq, IsAbsent)
    IN IF absent = <<>> THEN <<>> ELSE <<absent[1]>>

\* The device-ids refreshDevices calls createDevice for, in order.
ToCreate == SelectSeq(ConfigSeq, IsAbsent)

\* createDevice(deviceId) for each id of `ids`, up to its first await:
\* the instance is created, wired and put in the registry.
Created(ids, owner) ==
    insts \o [n \in 1..Len(ids) |-> NewDevice(ids[n], owner)]

Registered(ids) ==
    [d \in Config |->
        IF \E n \in 1..Len(ids) : ids[n] = d
        THEN Len(insts) + (CHOOSE n \in 1..Len(ids) : ids[n] = d)
        ELSE devices[d]]

\* `delete this.#devices[deviceId]`
Deleted(deviceId) == [devices EXCEPT ![deviceId] = NoDevice]

----------------------------------------------------------------------------
(* Manager init()                                                          *)

\* The outcome of init()'s Promise.all over its createDevice calls.
InitAll(seq) == PromiseAll({CdPromise(seq[i]) : i \in OwnedBy(seq, 0)})

\* init() after `await Promise.all(...)`: it rejects, or sets the interval
\* and resolves.
InitContinue(seq) ==
    IF initPc = "creating" /\ InitAll(seq) = "rejected"
    THEN /\ initPc' = "rejected"
         /\ out' = [kind |-> "init", result |-> "rejected"]
         /\ UNCHANGED timerActive
    ELSE IF initPc = "creating" /\ InitAll(seq) = "resolved"
    THEN /\ initPc' = "resolved"
         /\ timerActive' = TRUE
         /\ out' = [kind |-> "init", result |-> "resolved"]
    ELSE /\ out' = NoOut
         /\ UNCHANGED <<initPc, timerActive>>

\* init() up to `await initBitmapFeedback()`.
InitCall ==
    /\ initPc = "idle"
    /\ initPc' = "bitmap"
    /\ devices' = [d \in Config |-> NoDevice]
    /\ out' = NoOut
    /\ UNCHANGED <<insts, timerActive, cycles, subscribed, dCalls, dState, cf>>

\* initBitmapFeedback() rejects: init() rejects with it.
InitBitmapReject ==
    /\ initPc = "bitmap"
    /\ initPc' = "rejectedBitmap"
    /\ out' = [kind |-> "init", result |-> "rejectedBitmap"]
    /\ UNCHANGED <<devices, insts, timerActive, cycles, subscribed, dCalls, dState, cf>>

\* initBitmapFeedback() resolves: createDevice for every configured id.
InitCreate ==
    /\ initPc = "bitmap"
    /\ initPc' = "creating"
    /\ insts' = Created(ConfigSeq, 0)
    /\ devices' = Registered(ConfigSeq)
    /\ out' = NoOut
    /\ UNCHANGED <<timerActive, cycles, subscribed, dCalls, dState, cf>>

----------------------------------------------------------------------------
(* createDevice after its awaits                                           *)

\* device.init() resolves: createDevice resolves.
DeviceInitResolve(i) ==
    /\ insts[i].init = "pending"
    /\ insts' = [insts EXCEPT ![i].init = "resolved", ![i].cd = "resolved"]
    /\ InitContinue(insts')
    /\ UNCHANGED <<devices, cycles, subscribed, dCalls, dState, cf>>

\* device.init() rejects: the catch block calls device.destroy() and awaits it.
DeviceInitReject(i) ==
    /\ insts[i].init = "pending"
    /\ insts' = [insts EXCEPT
                    ![i] = [DeviceDestroy(@) EXCEPT !.init = "rejected",
                                                    !.cd = "awaitDestroy"]]
    /\ out' = NoOut
    /\ UNCHANGED <<devices, initPc, timerActive, cycles, subscribed, dCalls, dState, cf>>

\* A createDevice whose catch block does not delete the registry entry.
CatchDestroySettleKeepsEntry(i, ok) ==
    /\ insts[i].cd = "awaitDestroy"
    /\ insts' = [insts EXCEPT ![i].cd = IF ok THEN "resolved" ELSE "rejected"]
    /\ InitContinue(insts')
    /\ UNCHANGED <<devices, cycles, subscribed, dCalls, dState, cf>>

\* The catch block's `await device.destroy()` settles: resolved, the registry
\* entry of the id is deleted; rejected, createDevice rejects there.
CatchDestroySettle(i, ok) ==
    /\ insts[i].cd = "awaitDestroy"
    /\ insts' = [insts EXCEPT ![i].cd = IF ok THEN "resolved" ELSE "rejected"]
    /\ devices' = IF ok THEN Deleted(insts[i].id) ELSE devices
    /\ InitContinue(insts')
    /\ UNCHANGED <<cycles, subscribed, dCalls, dState, cf>>

\* The device emits `error` and the Manager's listener is attached: destroy()
\* is called on it.
DeviceError(i) ==
    /\ insts[i].listening
    /\ insts' = [insts EXCEPT ![i] = [DeviceDestroy(@) EXCEPT !.err = "pending"]]
    /\ out' = NoOut
    /\ UNCHANGED <<devices, initPc, timerActive, cycles, subscribed, dCalls, dState, cf>>

\* An error listener that deletes in .then instead of .finally: a rejecting
\* destroy() leaves the registry entry.
ErrDestroySettleThen(i, ok) ==
    /\ insts[i].err = "pending"
    /\ insts' = [insts EXCEPT ![i].err = "done"]
    /\ devices' = IF ok THEN Deleted(insts[i].id) ELSE devices
    /\ out' = NoOut
    /\ UNCHANGED <<initPc, timerActive, cycles, subscribed, dCalls, dState, cf>>

\* The error handler's destroy() settles; .catch logs a rejection, .finally
\* deletes the registry entry of the id.
ErrDestroySettle(i, ok) ==
    /\ insts[i].err = "pending"
    /\ insts' = [insts EXCEPT ![i].err = "done"]
    /\ devices' = Deleted(insts[i].id)
    /\ out' = NoOut
    /\ UNCHANGED <<initPc, timerActive, cycles, subscribed, dCalls, dState, cf>>

----------------------------------------------------------------------------
(* refreshDevices(), called by the interval                                *)

\* The outcome of cycle c's Promise.allSettled.
RefreshPromise(c) == PromiseAllSettled({CdPromise(insts[i]) : i \in OwnedBy(insts, c)})

\* A refreshDevices() that skips the cycle while an earlier one is in flight.
RefreshSerialized(maxInst) ==
    /\ timerActive
    /\ \A c \in 1..cycles : RefreshPromise(c) = "resolved"
    /\ Len(ToCreate) > 0
    /\ Len(insts) + Len(ToCreate) <= maxInst
    /\ cycles' = cycles + 1
    /\ insts' = Created(ToCreate, cycles')
    /\ devices' = Registered(ToCreate)
    /\ out' = NoOut
    /\ UNCHANGED <<initPc, timerActive, subscribed, dCalls, dState, cf>>

\* One firing of the interval with some id absent. (With no id absent
\* refreshDevices() resolves at once and changes nothing.)
RefreshWithin(maxInst) ==
    /\ timerActive
    /\ Len(ToCreate) > 0
    /\ Len(insts) + Len(ToCreate) <= maxInst
    /\ cycles' = cycles + 1
    /\ insts' = Created(ToCreate, cycles')
    /\ devices' = Registered(ToCreate)
    /\ out' = NoOut
    /\ UNCHANGED <<initPc, timerActive, subscribed, dCalls, dState, cf>>

TimerTick == RefreshWithin(MaxInst)

TimerTickFair == RefreshWithin(MaxInstFair)

----------------------------------------------------------------------------
(* Manager destroy()                                                       *)

\* Object.values(this.#devices)
RegistryValues == {devices[d] : d \in Config} \ {NoDevice}

DestroyedAll(targets) ==
    [i \in Insts |-> IF i \in targets THEN DeviceDestroy(insts[i]) ELSE insts[i]]

\* A destroy() that does not clear the interval.
DestroyKeepsInterval(maxCalls) ==
    /\ dCalls < maxCalls
    /\ \A k \in 1..dCalls : dState[k].st # "running"
    /\ dCalls' = dCalls + 1
    /\ subscribed' = FALSE
    /\ insts' = DestroyedAll(RegistryValues)
    /\ dState' = [dState EXCEPT ![dCalls'] =
                    [st        |-> IF RegistryValues = {} THEN "resolved" ELSE "running",
                     wait      |-> RegistryValues,
                     afterInit |-> initPc = "resolved",
                     duringInit |-> initPc \in {"bitmap", "creating"}]]
    /\ out' = [kind   |-> "destroy",
               call   |-> dCalls',
               called |-> RegistryValues,
               result |-> IF RegistryValues = {} THEN "resolved" ELSE "pending"]
    /\ UNCHANGED <<devices, initPc, cycles, timerActive, cf>>

\* destroy() up to `await Promise.all(...)`: listeners removed, interval
\* cleared, destroy() called on every registered device. With no device
\* registered the await resumes at once and the registry is reset.
DestroyWithin(maxCalls) ==
    /\ dCalls < maxCalls
    /\ \A k \in 1..dCalls : dState[k].st # "running"
    /\ dCalls' = dCalls + 1
    /\ subscribed' = FALSE
    /\ timerActive' = FALSE
    /\ insts' = DestroyedAll(RegistryValues)
    /\ dState' = [dState EXCEPT ![dCalls'] =
                    [st        |-> IF RegistryValues = {} THEN "resolved" ELSE "running",
                     wait      |-> RegistryValues,
                     afterInit |-> initPc = "resolved",
                     duringInit |-> initPc \in {"bitmap", "creating"}]]
    /\ out' = [kind   |-> "destroy",
               call   |-> dCalls',
               called |-> RegistryValues,
               result |-> IF RegistryValues = {} THEN "resolved" ELSE "pending"]
    /\ UNCHANGED <<devices, initPc, cycles, cf>>

DestroyCall == DestroyWithin(MaxDestroyCalls)

\* One device's destroy() of Manager destroy() call k settles. Promise.all
\* rejects with the first rejection; once all resolved, `this.#devices = {}`.
MgrDestroySettle(k, i, ok) ==
    /\ dState[k].st = "running"
    /\ i \in dState[k].wait
    /\ LET left == dState[k].wait \ {i}
           st   == IF ~ok THEN "rejected"
                   ELSE IF left = {} THEN "resolved" ELSE "running"
       IN /\ dState' = [dState EXCEPT ![k].st = st,
                                      ![k].wait = IF ok THEN left ELSE {}]
          /\ devices' = IF st = "resolved" THEN [d \in Config |-> NoDevice] ELSE devices
          /\ out' = IF st = "running" THEN NoOut
                    ELSE [kind |-> "destroy", call |-> k, called |-> {}, result |-> st]
    /\ UNCHANGED <<insts, initPc, timerActive, cycles, subscribed, dCalls, cf>>

----------------------------------------------------------------------------
(* Trigger forwarding and feedback routing                                 *)

\* A listener that tags with the first configured id instead of its own.
TriggerListenerFirstId(deviceId, eventArgs) ==
    [deviceId |-> ConfigSeq[1], args |-> eventArgs]

\* The listener createDevice attaches to `trigger`: what the Manager emits.
TriggerListener(deviceId, eventArgs) == [deviceId |-> deviceId, args |-> eventArgs]

\* Device i emits `trigger`: each attached listener runs once. Device.destroy()
\* removed the Manager's listener, and then nothing is forwarded.
DeviceTrigger(i, eventArgs) ==
    /\ out' = [kind    |-> "trigger",
               from    |-> i,
               args    |-> eventArgs,
               emitted |-> IF insts[i].listening
                           THEN <<TriggerListener(insts[i].id, eventArgs)>>
                           ELSE <<>>]
    /\ UNCHANGED <<devices, insts, initPc, timerActive, cycles, subscribed, dCalls, dState, cf>>

\* A setFeedback that forwards to the device created last for the id, whether
\* the registry still holds it or not.
SetFeedbackResultLastCreated(deviceId) ==
    LET created == {i \in Insts : insts[i].id = deviceId}
    IN IF created = {}
       THEN [result |-> "NotFound", names |-> deviceId, called |-> NoDevice]
       ELSE [result |-> "forwarded", names |-> "",
             called |-> CHOOSE i \in created : \A j \in created : j <= i]

\* setFeedback(deviceId, ...): what the call does with the registry lookup.
\* A missing entry throws `Could not find device "<deviceId>"`; an inherited
\* property is truthy and has no setFeedback method, a TypeError that names no
\* device; a device gets the call.
SetFeedbackResult(deviceId) ==
    LET device == Lookup(deviceId)
    IN IF device.kind = "undefined"
       THEN [result |-> "NotFound", names |-> deviceId, called |-> NoDevice]
       ELSE IF device.kind = "inherited"
       THEN [result |-> "TypeError", names |-> "", called |-> NoDevice]
       ELSE [result |-> "forwarded", names |-> "", called |-> device.inst]

SetFeedback(deviceId) ==
    /\ out' = [kind |-> "setFeedback", deviceId |-> deviceId,
               call |-> SetFeedbackResult(deviceId)]
    /\ UNCHANGED <<devices, insts, initPc, timerActive, cycles, subscribed, dCalls, dState, cf>>

\* Object.values(this.#devices): the entries in the order their keys were
\* inserted. A key is inserted when createDevice registers an instance for an
\* id that has no entry, so the entries are in the order of their creation.
ObjectValues ==
    CHOOSE q \in [1..Cardinality(RegistryValues) -> RegistryValues] :
        \A m, n \in 1..Cardinality(RegistryValues) : m < n => q[m] < q[n]

\* A clearFeedbackAll() that calls every device at once (Promise.all over map).
ClearFeedbackAllAtOnce ==
    /\ cf.st # "running"
    /\ cf' = [st       |-> IF ObjectValues = <<>> THEN "resolved" ELSE "running",
              snapshot |-> ObjectValues,
              pos      |-> Len(ObjectValues),
              inflight |-> RegistryValues]
    /\ out' = [kind |-> "clearFeedbackAll", called |-> ObjectValues]
    /\ UNCHANGED <<devices, insts, initPc, timerActive, cycles, subscribed, dCalls, dState>>

\* clearFeedbackAll() up to its first await: the loop iterates over the array
\* Object.values returned and calls clearFeedbackAll() on the first device.
\* With no device registered it resolves.
ClearFeedbackAllCall ==
    /\ cf.st # "running"
    /\ cf' = IF ObjectValues = <<>>
             THEN [st |-> "resolved", snapshot |-> <<>>, pos |-> 0, inflight |-> {}]
             ELSE [st |-> "running", snapshot |-> ObjectValues, pos |-> 1,
                   inflight |-> {ObjectValues[1]}]
    /\ out' = [kind   |-> "clearFeedbackAll",
               called |-> IF ObjectValues = <<>> THEN <<>> ELSE <<ObjectValues[1]>>]
    /\ UNCHANGED <<devices, insts, initPc, timerActive, cycles, subscribed, dCalls, dState>>

\* The awaited device.clearFeedbackAll() settles. Resolved: the loop calls the
\* next device of the array, or ends and clearFeedbackAll() resolves. Rejected:
\* the await throws out of the loop and clearFeedbackAll() rejects.
DeviceClearSettle(i, ok) ==
    /\ cf.st = "running"
    /\ i \in cf.inflight
    /\ IF ~ok
       THEN /\ cf' = [cf EXCEPT !.st = "rejected", !.inflight = @ \ {i}]
            /\ out' = NoOut
       ELSE IF cf.pos < Len(cf.snapshot)
       THEN /\ cf' = [cf EXCEPT !.pos = @ + 1,
                                !.inflight = (@ \ {i}) \cup {cf.snapshot[cf.pos + 1]}]
            /\ out' = [kind |-> "clearFeedbackAll", called |-> <<cf.snapshot[cf.pos + 1]>>]
       ELSE /\ cf' = [cf EXCEPT !.inflight = @ \ {i},
                                !.st = IF cf.inflight = {i} THEN "resolved" ELSE "running"]
            /\ out' = NoOut
    /\ UNCHANGED <<devices, insts, initPc, timerActive, cycles, subscribed, dCalls, dState>>

----------------------------------------------------------------------------

Init ==
    /\ devices = [d \in Config |-> NoDevice]
    /\ insts = <<>>
    /\ initPc = "idle"
    /\ timerActive = FALSE
    /\ cycles = 0
    /\ subscribed = TRUE
    /\ dCalls = 0
    /\ dState = [k \in 1..MaxDestroyCalls |->
                    [st |-> "none", wait |-> {}, afterInit |-> FALSE, duringInit |-> FALSE]]
    /\ out = NoOut
    /\ cf = NoClear

Next ==
    \/ InitCall
    \/ InitBitmapReject
    \/ InitCreate
    \/ \E i \in Insts : DeviceInitResolve(i)
    \/ \E i \in Insts : DeviceInitReject(i)
    \/ \E i \in Insts, ok \in BOOLEAN : CatchDestroySettle(i, ok)
    \/ \E i \in Insts : DeviceError(i)
    \/ \E i \in Insts, ok \in BOOLEAN : ErrDestroySettle(i, ok)
    \/ RefreshWithin(MaxInstDestroy)
    \/ DestroyCall
    \/ \E k \in 1..MaxDestroyCalls, i \in Insts, ok \in BOOLEAN : MgrDestroySettle(k, i, ok)

Spec == Init /\ [][Next]_vars

\* The lifecycle without Manager destroy() calls, with the devices' trigger
\* events and the callers' setFeedback calls.
NextIO ==
    \/ InitCall
    \/ InitBitmapReject
    \/ InitCreate
    \/ \E i \in Insts : DeviceInitResolve(i)
    \/ \E i \in Insts : DeviceInitReject(i)
    \/ \E i \in Insts, ok \in BOOLEAN : CatchDestroySettle(i, ok)
    \/ \E i \in Insts : DeviceError(i)
    \/ \E i \in Insts, ok \in BOOLEAN : ErrDestroySettle(i, ok)
    \/ RefreshWithin(MaxInstIO)
    \/ \E i \in Insts, eventArgs \in EventArgs : DeviceTrigger(i, eventArgs)
    \/ \E deviceId \in FeedbackIds : SetFeedback(deviceId)

\* The lifecycle without Manager destroy() calls.
NextDevices ==
    \/ InitCall
    \/ InitBitmapReject
    \/ InitCreate
    \/ \E i \in Insts : DeviceInitResolve(i)
    \/ \E i \in Insts : DeviceInitReject(i)
    \/ \E i \in Insts, ok \in BOOLEAN : CatchDestroySettle(i, ok)
    \/ \E i \in Insts : DeviceError(i)
    \/ \E i \in Insts, ok \in BOOLEAN : ErrDestroySettle(i, ok)
    \/ TimerTick

SpecDevices == Init /\ [][NextDevices]_vars

NextFair ==
    \/ InitCall
    \/ InitBitmapReject
    \/ InitCreate
    \/ \E i \in Insts : DeviceInitResolve(i)
    \/ \E i \in Insts : DeviceInitReject(i)
    \/ \E i \in Insts, ok \in BOOLEAN : CatchDestroySettle(i, ok)
    \/ \E i \in Insts : DeviceError(i)
    \/ \E i \in Insts, ok \in BOOLEAN : ErrDestroySettle(i, ok)
    \/ TimerTickFair

\* The same lifecycle where the interval keeps firing while it is set, and
\* every destroy() called by an error listener settles.
FairDevices ==
    /\ Init /\ [][NextFair]_vars
    /\ WF_vars(TimerTickFair)
    /\ \A i \in 1..MaxInstFair :
        WF_vars(i \in Insts /\ \E ok \in BOOLEAN : ErrDestroySettle(i, ok))

SpecIO == Init /\ [][NextIO]_vars

\* The lifecycle without Manager destroy() calls, with the callers' setFeedback
\* and clearFeedbackAll calls and the devices' clearFeedbackAll outcomes.
NextFeedback ==
    \/ InitCall
    \/ InitBitmapReject
    \/ InitCreate
    \/ \E i \in Insts : DeviceInitResolve(i)
    \/ \E i \in Insts : DeviceInitReject(i)
    \/ \E i \in Insts, ok \in BOOLEAN : CatchDestroySettle(i, ok)
    \/ \E i \in Insts : DeviceError(i)
    \/ \E i \in Insts, ok \in BOOLEAN : ErrDestroySettle(i, ok)
    \/ RefreshWithin(MaxInstFeedback)
    \/ \E deviceId \in FeedbackIds : SetFeedback(deviceId)
    \/ ClearFeedbackAllCall
    \/ \E i \in Insts, ok \in BOOLEAN : DeviceClearSettle(i, ok)

SpecFeedback == Init /\ [][NextFeedback]_vars

----------------------------------------------------------------------------
(* Properties                                                              *)

\* destroy() has not been called on instance i (Device.destroy() detaches the
\* listeners, and nothing else does).
Live(i) == insts[i].listening

\* Instance i is ACTIVE: its init() resolved and destroy() was not called on it.
Active(i) == insts[i].init = "resolved" /\ Live(i)

LiveOf(deviceId) == {i \in Insts : insts[i].id = deviceId /\ Live(i)}

InitResolvesNow == out.kind = "init" /\ out.result = "resolved"

\* C1: for every device-id, at most one instance is live, and while one is
\* live the registry holds no other instance for the id. (SpecDevices: init(),
\* refresh cycles, device init() outcomes, error events, destroy() completions.)
C1_OneLiveInstancePerId ==
    \A d \in Config :
        /\ Cardinality(LiveOf(d)) <= 1
        /\ \A i \in LiveOf(d) : devices[d] \in {NoDevice, i}

\* C2: Manager init() never rejects because of a device: its Promise.all over
\* the createDevice calls never rejects.
C2_InitNeverRejectsForADevice == initPc # "rejected"

\* C3 as stated: at the moment init() resolves (no Manager destroy() called),
\* every registry entry is an ACTIVE device.
C3_OnlyActiveWhenInitResolves ==
    InitResolvesNow /\ dCalls = 0 =>
        \A d \in Config : devices[d] # NoDevice => Active(devices[d])

\* C3 as amended: at the moment init() resolves, every registry entry is a
\* device whose init() resolved (ACTIVE, or being torn down after an error
\* event or a Manager destroy() call); none has init() pending or failed.
C3_OnlyInitializedWhenInitResolves ==
    InitResolvesNow =>
        \A d \in Config :
            devices[d] # NoDevice => insts[devices[d]].init = "resolved"

\* C3's case: init() resolves while one registered device is ACTIVE, another
\* is registered and being torn down after its error event, and no Manager
\* destroy() was called.
C3_Witness ==
    /\ InitResolvesNow
    /\ dCalls = 0
    /\ \E d \in Config : devices[d] # NoDevice /\ Active(devices[d])
    /\ \E d \in Config :
        /\ devices[d] # NoDevice
        /\ insts[devices[d]].init = "resolved"
        /\ insts[devices[d]].err = "pending"

\* Instance i emitted error while it was the registry's entry for its id, and
\* the destroy() its error listener called has not settled.
ErroredRegistered(i) ==
    /\ i \in Insts
    /\ insts[i].err = "pending"
    /\ devices[insts[i].id] = i

\* The next refresh cycle does not fit the model's bound on instances.
RefreshBlocked == Len(insts) + Len(ToCreate) > MaxInstFair

\* Instance i has emitted error.
Errored(i) == i \in Insts /\ insts[i].err # "none"

\* C4: once a registered device emitted error, its id becomes absent from the
\* registry, and with the interval set the registry comes to hold another
\* instance for the id (FairDevices: the interval fires, destroy() settles).
C4_ErroredDeviceIsReplaced ==
    \A i \in 1..MaxInstFair :
        /\ ErroredRegistered(i) ~> (i \in Insts /\ devices[insts[i].id] = NoDevice)
        /\ (Errored(i) /\ timerActive)
              ~> \/ i \in Insts /\ devices[insts[i].id] \notin {NoDevice, i}
                 \/ RefreshBlocked

\* C4's case: an ACTIVE device errored, was evicted when its destroy() settled,
\* and a refresh cycle registered a new instance for its id.
C4_Witness ==
    \E i \in Insts :
        /\ insts[i].init = "resolved"
        /\ insts[i].err = "done"
        /\ devices[insts[i].id] \notin {NoDevice, i}
        /\ insts[devices[insts[i].id]].owner > 0
        /\ timerActive

\* C5: when Manager init() completes, a device of it whose init() rejected and
\* whose creation attempt has settled is not in the registry (so the refresh
\* cycles retry its id).
C5_FailedDeviceAbsentWhenInitCompletes ==
    out.kind = "init" /\ out.result \in {"resolved", "rejected"} =>
        \A i \in OwnedBy(insts, 0) :
            insts[i].init = "rejected" /\ insts[i].cd \in {"resolved", "rejected"}
                => devices[insts[i].id] # i

\* Some Manager destroy() was called after init() had resolved.
DestroyedAfterInit == \E k \in 1..MaxDestroyCalls : dState[k].afterInit

\* C6: after a Manager destroy() called once init() had resolved, the interval
\* is cleared, no refresh cycle and no creation attempt starts, and from the
\* moment that destroy() resolves the registry is empty.
C6_DestroyedStaysEmpty ==
    /\ [](\A k \in 1..MaxDestroyCalls :
            dState[k].afterInit =>
                /\ ~timerActive
                /\ dState[k].st = "resolved" => RegistryValues = {})
    /\ [][DestroyedAfterInit => Len(insts') = Len(insts) /\ cycles' = cycles]_vars

\* C6's case: destroy() was called after init() with a creation attempt of a
\* refresh cycle in flight and an error teardown in flight, and it resolved.
C6_Witness ==
    /\ \E k \in 1..MaxDestroyCalls : dState[k].afterInit /\ dState[k].st = "resolved"
    /\ RegistryValues = {}
    /\ \E i \in Insts : insts[i].owner > 0 /\ insts[i].init = "pending"
    /\ \E i \in Insts : insts[i].err = "pending"

\* C7: a destroy() call made after a first destroy() (itself called once
\* init() had resolved) has completed calls destroy() on no device and resolves.
C7_SecondDestroyIsNoOp ==
    out.kind = "destroy" /\ out.call > 1 /\ dState[1].afterInit =>
        out.called = {} /\ out.result = "resolved"

\* C8: setFeedback with a deviceId that has no registry entry fails with the
\* error that names that deviceId, and calls no device.
C8_UnknownDeviceIsNotFound ==
    out.kind = "setFeedback"
        /\ (out.deviceId \notin Config \/ devices[out.deviceId] = NoDevice) =>
            /\ out.call.result = "NotFound"
            /\ out.call.names = out.deviceId
            /\ out.call.called = NoDevice

\* The one event the Manager emits for the trigger event in `out`.
Forwarded == <<[deviceId |-> insts[out.from].id, args |-> out.args]>>

\* C9 as stated: every trigger event a device emits is re-emitted once, with
\* its payload and the id the device was created under.
C9_EveryTriggerForwarded == out.kind = "trigger" => out.emitted = Forwarded

\* C9 as amended: a trigger event is re-emitted once, with its payload and the
\* id the device was created under, when destroy() has not been called on the
\* device; after that call it is not re-emitted.
C9_AttachedTriggerForwarded ==
    out.kind = "trigger" =>
        out.emitted = IF Live(out.from) THEN Forwarded ELSE <<>>

\* C9's case: the device created for the second id, while live, emits a
\* trigger with replacesPrevious and the Manager re-emits it.
C9_Witness ==
    /\ out.kind = "trigger"
    /\ Live(out.from)
    /\ insts[out.from].id = ConfigSeq[2]
    /\ out.args = [triggerId |-> "t2", replacesPrevious |-> TRUE]
    /\ Len(out.emitted) = 1

\* C10: a refresh cycle starts a creation attempt for every configured id
\* that is absent when it runs, and no cycle's promise ever rejects.
C10_RefreshAttemptsEveryAbsentId ==
    /\ [][cycles' = cycles + 1 =>
            \A d \in Config :
                IsAbsent(d) =>
                    \E i \in (Len(insts) + 1)..Len(insts') :
                        /\ insts'[i].id = d
                        /\ insts'[i].owner = cycles'
                        /\ devices'[d] = i]_vars
    /\ [](\A c \in 1..cycles : RefreshPromise(c) # "rejected")

\* C10's case: one cycle created a device for both ids, one attempt failed
\* with a rejecting destroy(), the other succeeded, and the cycle resolved.
C10_Witness ==
    \E c \in 1..cycles :
        /\ \A d \in Config : \E i \in OwnedBy(insts, c) : insts[i].id = d
        /\ \E i \in OwnedBy(insts, c) : insts[i].cd = "rejected"
        /\ \E i \in OwnedBy(insts, c) : insts[i].init = "resolved"
        /\ RefreshPromise(c) = "resolved"

\* C11: within one clearFeedbackAll() invocation at most one device's
\* clearFeedbackAll() is in flight, and a device's call starts only in the
\* segment where the call on the device before it in the iterated order
\* completed (the first device's, in the segment of the invocation).
C11_ClearCallsAreSequential ==
    /\ [](Cardinality(cf.inflight) <= 1)
    /\ [][\A i \in cf'.inflight \ cf.inflight :
            /\ cf'.inflight = {i}
            /\ i = cf'.snapshot[cf'.pos]
            /\ \/ cf.st # "running" /\ cf'.pos = 1
               \/ /\ cf'.snapshot = cf.snapshot
                  /\ cf'.pos = cf.pos + 1
                  /\ cf.inflight = {cf.snapshot[cf.pos]}]_vars

\* C11's case: an invocation over two registered devices has the first
\* device's call completed and the second device's call in flight.
C11_Witness ==
    /\ cf.st = "running"
    /\ Len(cf.snapshot) = 2
    /\ cf.pos = 2
    /\ cf.inflight = {cf.snapshot[2]}

\* C12: a clearFeedbackAll() invocation that has settled has called
\* clearFeedbackAll() on every device that was registered when it was called.
C12_ClearCallsEveryDevice ==
    cf.st \in {"resolved", "rejected"} => cf.pos = Len(cf.snapshot)

\* C13: a Manager destroy() call calls destroy() on every registered device,
\* never rejects, and when it settles the registry is empty.
C13_DestroyToleratesRejection ==
    out.kind = "destroy" =>
        /\ \A i \in out.called : ~Live(i)
        /\ out.result # "rejected"
        /\ out.result = "resolved" => RegistryValues = {}

\* C14: a device whose init() rejected has had destroy() called on it, and once
\* its creation attempt has settled the attempt did not fail (nothing reaches
\* the caller of init() or refreshDevices()) and the registry does not hold the
\* device (its id can be retried).
C14_InitFailureIsEvictedAndSwallowed ==
    \A i \in Insts :
        insts[i].init = "rejected" =>
            /\ ~Live(i)
            /\ insts[i].cd \in {"resolved", "rejected"} =>
                /\ insts[i].cd = "resolved"
                /\ devices[insts[i].id] # i

\* C15: a registered device that emitted error has had destroy() called on it;
\* while that destroy() has not settled the registry keeps the device (so no
\* refresh cycle recreates its id), and the step in which it settles, resolved
\* or rejected, removes the id from the registry. (Stated for the devices
\* whose init() resolved.)
C15_EvictedWhenErrorDestroySettles ==
    /\ [](\A i \in Insts : insts[i].err = "pending" => ~Live(i))
    /\ [][\A i \in Insts :
            ErroredRegistered(i) /\ insts[i].init = "resolved" =>
                \/ ErroredRegistered(i)'
                \/ insts'[i].err = "done" /\ devices'[insts[i].id] = NoDevice]_vars

\* The state of the slot of a device-id: ABSENT with no registry entry;
\* otherwise by the registered device: DESTROYING once destroy() was called on
\* it after an error event, ACTIVE once its init() resolved, else CREATING
\* (to the end of the creation attempt, the teardown of a failed init()
\* included).
Slot(reg, seq, d) ==
    IF reg[d] = NoDevice THEN "ABSENT"
    ELSE IF seq[reg[d]].err # "none" THEN "DESTROYING"
    ELSE IF seq[reg[d]].init = "resolved" THEN "ACTIVE"
    ELSE "CREATING"

\* The transitions of a slot the state machine has, and the move of a device
\* that emits error before its init() settled to DESTROYING.
SlotTransitions ==
    {<<"ABSENT", "CREATING">>, <<"CREATING", "ACTIVE">>, <<"ACTIVE", "DESTROYING">>,
     <<"DESTROYING", "ABSENT">>, <<"CREATING", "ABSENT">>, <<"CREATING", "DESTROYING">>}

\* C16: every step leaves a slot as it is or takes one transition of the
\* state machine; a creation attempt registers a device only for an id that
\* had no entry; the entry of an ACTIVE device is never removed.
C16_SlotStateMachine ==
    [][\A d \in Config :
        /\ \/ Slot(devices', insts', d) = Slot(devices, insts, d)
           \/ <<Slot(devices, insts, d), Slot(devices', insts', d)>> \in SlotTransitions
        /\ devices'[d] > Len(insts) => devices[d] = NoDevice
        /\ devices[d] # NoDevice /\ devices'[d] # devices[d] =>
              Slot(devices, insts, d) # "ACTIVE"]_vars

\* Some refresh cycle's creation attempts have not all settled.
CycleInFlight == \E c \in 1..cycles : RefreshPromise(c) = "pending"

\* C17: refresh cycles are not mutually excluded: with the interval set and
\* an id absent, a new cycle can start while an earlier cycle is in flight
\* (within the bound on instances).
C17_CyclesOverlap ==
    /\ timerActive
    /\ CycleInFlight
    /\ Len(ToCreate) > 0
    /\ Len(insts) + Len(ToCreate) <= MaxInst
    => ENABLED TimerTick

\* C17's case: two refresh cycles each have a creation attempt in flight for
\* the same device-id.
C17_Witness ==
    \E i, j \in Insts :
        /\ insts[i].id = insts[j].id
        /\ 0 < insts[i].owner
        /\ insts[i].owner < insts[j].owner
        /\ CdPromise(insts[i]) = "pending"
        /\ CdPromise(insts[j]) = "pending"

\* This step, the teardown of instance i settles and its eviction runs: the
\* destroy() its error listener called, or the destroy() of its failed init().
EvictionOf(i) ==
    \/ insts[i].err = "pending" /\ insts'[i].err = "done"
    \/ insts[i].cd = "awaitDestroy" /\ insts'[i].cd # "awaitDestroy"

\* C18: the eviction performed for an instance leaves unchanged every registry
\* entry that does not refer to that instance.
C18_EvictionOnlyOfOwnEntry ==
    [][\A i \in Insts :
        EvictionOf(i) =>
            \A d \in Config : devices[d] # i => devices'[d] = devices[d]]_vars

\* The devices a Manager feedback call invoked in the last segment.
FeedbackCalled ==
    IF out.kind = "setFeedback" THEN {out.call.called} \ {NoDevice}
    ELSE IF out.kind = "clearFeedbackAll" THEN {out.called[n] : n \in 1..Len(out.called)}
    ELSE {}

\* C19 as stated: setFeedback() and clearFeedbackAll() invoke only ACTIVE
\* devices.
C19_FeedbackOnlyToActive == \A i \in FeedbackCalled : Active(i)

\* C19 as amended: setFeedback() invokes only the device the registry holds
\* for the addressed id, and clearFeedbackAll() only devices the registry held
\* when it was called, whatever the state of the device.
C19_FeedbackOnlyToRegistered ==
    /\ [](out.kind = "setFeedback" =>
            \A i \in FeedbackCalled :
                out.deviceId \in Config /\ devices[out.deviceId] = i)
    /\ [](out.kind = "clearFeedbackAll" =>
            FeedbackCalled \subseteq {cf.snapshot[n] : n \in 1..Len(cf.snapshot)})
    /\ [][cf'.snapshot # cf.snapshot =>
            {cf'.snapshot[n] : n \in 1..Len(cf'.snapshot)} = RegistryValues]_vars

\* C19's case: setFeedback() was forwarded to a registered device whose init()
\* is pending and on which destroy() was called after its error event.
C19_Witness ==
    /\ out.kind = "setFeedback"
    /\ \E i \in FeedbackCalled :
        /\ insts[i].init = "pending"
        /\ insts[i].err = "pending"
        /\ devices[insts[i].id] = i

\* C20: once init() and a Manager destroy() that was called while init() was
\* in flight have both settled, the interval is not set and no device created
\* by init() is live or registered.
C20_DestroyDuringInit ==
    /\ initPc \in {"resolved", "rejected", "rejectedBitmap"}
    /\ \E k \in 1..MaxDestroyCalls :
        dState[k].duringInit /\ dState[k].st \in {"resolved", "rejected"}
    => /\ ~timerActive
       /\ \A i \in OwnedBy(insts, 0) : ~Live(i) /\ devices[insts[i].id] # i

====
